---- MODULE Spec2Model ----
\* Model of the dashboard notification helper
\* (src/public/Assets/Scripts/dashboard-notifications.js) and of the R2 storage
\* facade (src/unnamed/part_000).
EXTENDS Integers, Sequences, FiniteSets, TLC

\* ------------------------------------------------------------------ bounds
\* Page-level show() calls per behaviour.
MaxShows == 2
\* Granularity of the partial clock advances (time units).
TickStep == 1000
\* A short auto-dismiss duration, next to the default one.
ShortDuration == 200
\* fetchWithFeedback calls per behaviour.
MaxCalls == 2
\* Longest key list handed to deleteFiles.
MaxKeys == 3000
\* Facade operations per behaviour of the storage specification.
MaxOps == 3

\* --------------------------------------------------- program constants
\* showNotification's default duration.
DefaultDuration == 5000
\* Delay of the inner setTimeout that removes the faded element.
RemovalDelay == 300
\* deleteFiles' maxBatchSize.
maxBatchSize == 1000

\* ------------------------------------------------------- optional values
\* A JavaScript value that may be undefined: <<>> is undefined, <<v>> is v.
None == <<>>
Some(v) == <<v>>
IsSome(o) == Len(o) = 1
Val(o) == o[1]

\* a || b for two optional strings or contents: a when a is truthy (defined and
\* not empty), else b.
Truthy(o, empty) == IsSome(o) /\ Val(o) # empty
OrElse(a, b, empty) == IF Truthy(a, empty) THEN a ELSE b

VARIABLES
    \* --- notifications (the document and the timer queue)
    els,        \* every notification element ever created, by creation order
    doc,        \* the elements matching '.notification' in the document, in order
    timers,     \* pending setTimeout callbacks
    lastShown,  \* message of the most recent showNotification call
    shows,      \* page-level show() calls made
    \* --- buttons
    btn,        \* each button's disabled flag, class, innerHTML and dataset
    pristine,   \* each button's content before any setLoading call
    \* --- fetchWithFeedback calls: each call's arguments, position and
    \* outcome, whether it overlapped another call on its button, and the
    \* button and notification as they were when it started and settled
    calls,
    \* --- storage facade
    ops,        \* facade operations started so far
    op,         \* the facade operation in progress or just settled
    \* --- deleteFiles
    bd          \* the batch delete in progress or just settled

vars == <<els, doc, timers, lastShown, shows, btn, pristine, calls, ops, op, bd>>

\* ---------------------------------------------------------------- strings
\* A message string is the sequence of its words; the empty string is <<>>.
Str(w) == <<w>>
EmptyStr == <<>>

\* s.includes(sub).
Includes(s, sub) ==
    \E i \in 0..Len(s) :
        /\ i + Len(sub) <= Len(s)
        /\ \A j \in 1..Len(sub) : s[i + j] = sub[j]

\* ------------------------------------------------------------ notifications
\* The (message, type) pairs page scripts show.
ShowInputs == {<<Str("m1"), "success">>, <<Str("m2"), "error">>, <<Str("m1"), "info">>}
Durations == {DefaultDuration, ShortDuration}

\* getNotificationIcon(type): icons[type] || icons.success.
getNotificationIcon(type) ==
    CASE type = "success" -> "check-circle"
      [] type = "error" -> "exclamation-triangle"
      [] type = "warning" -> "exclamation-circle"
      [] type = "info" -> "info-circle"
      [] OTHER -> "check-circle"

\* notification.className.
NotificationClass(type) ==
    IF type # "success" THEN <<"notification", "notification-" \o type>>
    ELSE <<"notification">>

\* showNotification without the removal of the existing element.
KeepExisting(d) == d

\* existing.remove() on the first element matching '.notification'.
RemoveExisting(d) == IF d # <<>> THEN Tail(d) ELSE d

\* element.remove(): detach one element from the document.
Detach(d, n) == SelectSeq(d, LAMBDA x : x # n)

Attached(n) == \E i \in 1..Len(doc) : doc[i] = n

\* The document after showNotification(message, type, duration), as a record of
\* the new values of els, doc, timers and lastShown.
showNotification(dom, message, type, duration) ==
    LET id == Len(dom.els) + 1
        el == [message |-> message,
               className |-> NotificationClass(type),
               icon |-> getNotificationIcon(type),
               duration |-> duration,
               animation |-> "slideIn",
               age |-> 0]
    IN  [els |-> Append(dom.els, el),
         doc |-> Append(RemoveExisting(dom.doc), id),
         timers |-> dom.timers \cup {[note |-> id, kind |-> "duration", left |-> duration]},
         lastShown |-> Some(message)]

Dom == [els |-> els, doc |-> doc, timers |-> timers, lastShown |-> lastShown]

SetDom(d) ==
    /\ els' = d.els
    /\ doc' = d.doc
    /\ timers' = d.timers
    /\ lastShown' = d.lastShown

\* show(message, type, duration) called by a page script.
Show(message, type, duration) ==
    /\ shows < MaxShows
    /\ shows' = shows + 1
    /\ SetDom(showNotification(Dom, message, type, duration))
    /\ UNCHANGED <<btn, pristine, calls, ops, op, bd>>

\* The close button's onclick: this.parentElement.parentElement.remove().
Dismiss(n) ==
    /\ Attached(n)
    /\ doc' = Detach(doc, n)
    /\ els' = [els EXCEPT ![n].age = 0]
    /\ UNCHANGED <<timers, lastShown, shows, btn, pristine, calls, ops, op, bd>>

\* The timer the event loop runs next: the one with the least time left, the
\* older element first among equals.
NextTimer(t) ==
    /\ t \in timers
    /\ t.left = 0
    /\ \A u \in timers : u.left = 0 => u.note >= t.note

\* The outer callback removing the element at once, with no exit animation.
FireDurationNoFade(t) ==
    /\ NextTimer(t)
    /\ t.kind = "duration"
    /\ timers' = timers \ {t}
    /\ IF Attached(t.note)
       THEN /\ doc' = Detach(doc, t.note)
            /\ els' = [els EXCEPT ![t.note].age = 0]
       ELSE /\ doc' = doc
            /\ els' = els
    /\ UNCHANGED <<lastShown, shows, btn, pristine, calls, ops, op, bd>>

\* The outer setTimeout callback: start the exit animation and schedule removal.
FireDuration(t) ==
    /\ NextTimer(t)
    /\ t.kind = "duration"
    /\ IF Attached(t.note)
       THEN /\ els' = [els EXCEPT ![t.note].animation = "slideOut", ![t.note].age = 0]
            /\ timers' = (timers \ {t}) \cup
                   {[note |-> t.note, kind |-> "removal", left |-> RemovalDelay]}
       ELSE /\ els' = els
            /\ timers' = timers \ {t}
    /\ UNCHANGED <<doc, lastShown, shows, btn, pristine, calls, ops, op, bd>>

\* The inner setTimeout callback: remove the element if still attached.
FireRemoval(t) ==
    /\ NextTimer(t)
    /\ t.kind = "removal"
    /\ timers' = timers \ {t}
    /\ IF Attached(t.note)
       THEN /\ doc' = Detach(doc, t.note)
            /\ els' = [els EXCEPT ![t.note].age = 0]
       ELSE /\ doc' = doc
            /\ els' = els
    /\ UNCHANGED <<lastShown, shows, btn, pristine, calls, ops, op, bd>>

\* Time passes: d units, never past a pending timer's deadline. An attached
\* element's age is the time since it was shown or since it began to fade.
MinLeft == CHOOSE m \in {t.left : t \in timers} : \A t \in timers : m <= t.left

Advance(d) ==
    /\ timers # {}
    /\ d > 0
    /\ d <= MinLeft
    /\ timers' = {[t EXCEPT !.left = @ - d] : t \in timers}
    /\ els' = [n \in DOMAIN els |->
                 IF Attached(n) THEN [els[n] EXCEPT !.age = @ + d] ELSE els[n]]
    /\ UNCHANGED <<doc, lastShown, shows, btn, pristine, calls, ops, op, bd>>

Tick == timers # {} /\ \E d \in {TickStep, MinLeft} : Advance(d)

\* Time passes until the next pending timer is due.
TickToNext == timers # {} /\ Advance(MinLeft)

\* The lifecycle state of element n.
NoteState(e, d, n) ==
    IF \A i \in 1..Len(d) : d[i] # n THEN "absent"
    ELSE IF e[n].animation = "slideOut" THEN "fading"
    ELSE "visible"

NextNotify ==
    \/ \E in \in ShowInputs, du \in Durations : Show(in[1], in[2], du)
    \/ \E n \in DOMAIN els : Dismiss(n)
    \/ \E t \in timers : FireDuration(t)
    \/ \E t \in timers : FireRemoval(t)
    \/ Tick

\* ------------------------------------------------------------------ buttons
Buttons == {"save", "del"}

\* A button's content is the sequence of its child nodes: <i> elements with a
\* class list, and text nodes.
Icon(cls) == [tag |-> "i", class |-> cls, text |-> ""]
Text(t) == [tag |-> "#text", class |-> <<>>, text |-> t]

Spinner == Icon(<<"fas", "fa-spinner", "fa-spin">>)
SpinnerOnly == <<Spinner>>
SpinnerProcessing == <<Spinner, Text(" Processing...")>>

\* The contents a button starts with.
Contents ==
    { <<>>,
      <<Text("Save")>>,
      <<Icon(<<"fas", "fa-trash">>)>>,
      <<Icon(<<"fas", "fa-save">>), Text(" Save")>>,
      <<Icon(<<"far", "fa-bell">>), Text(" Notify")>> }

\* button.innerHTML.includes('<i class="fas').
IncludesFasIcon(html) ==
    \E i \in 1..Len(html) :
        /\ html[i].tag = "i"
        /\ html[i].class # <<>>
        /\ html[i].class[1] = "fas"

\* button.textContent: the text of the content's nodes, in order.
RECURSIVE TextContent(_)
TextContent(html) ==
    IF html = <<>> THEN <<>>
    ELSE IF Head(html).text = "" THEN TextContent(Tail(html))
    ELSE <<Head(html).text>> \o TextContent(Tail(html))

FreshButton(html) ==
    [disabled |-> FALSE, loading |-> FALSE, innerHTML |-> html,
     originalHTML |-> None, originalText |-> None]

\* setLoading(button, isLoading) on a defined button: the button afterwards.
setLoading(b, isLoading) ==
    LET originalHTML == Val(OrElse(b.originalHTML, Some(b.innerHTML), <<>>))
        originalText == Val(OrElse(b.originalText, Some(TextContent(b.innerHTML)), <<>>))
        stored == IF ~Truthy(b.originalHTML, <<>>)
                  THEN [b EXCEPT !.originalHTML = Some(originalHTML),
                                 !.originalText = Some(originalText)]
                  ELSE b
    IN  IF isLoading
        THEN [stored EXCEPT !.disabled = TRUE,
                            !.loading = TRUE,
                            !.innerHTML = IF IncludesFasIcon(b.innerHTML)
                                          THEN SpinnerOnly
                                          ELSE SpinnerProcessing]
        ELSE [stored EXCEPT !.disabled = FALSE,
                            !.loading = FALSE,
                            !.innerHTML = originalHTML]

\* setLoading(target, isLoading), target possibly null: if (!button) return.
SetLoadingOn(buttons, target, isLoading) ==
    IF target = "null" THEN buttons
    ELSE [buttons EXCEPT ![target] = setLoading(@, isLoading)]

\* A page script calls setLoading(b, isLoading).
SetLoadingCall(b, isLoading) ==
    /\ btn' = SetLoadingOn(btn, b, isLoading)
    /\ UNCHANGED <<els, doc, timers, lastShown, shows, pristine, calls, ops, op, bd>>

NextLoading ==
    \E b \in Buttons \cup {"null"}, l \in BOOLEAN : SetLoadingCall(b, l)

\* -------------------------------------------------------- fetchWithFeedback
OperationFailed == <<"Operation", "failed">>
NetworkErrorText ==
    <<"Network", "error.", "Please", "check", "your", "connection", "and", "try", "again.">>
UnexpectedErrorText ==
    <<"An", "unexpected", "error", "occurred.", "Please", "try", "again.">>

\* What the endpoint's response body parses to: a JSON envelope
\* {success, error?, message?}, the JSON value null, or no JSON at all.
Envelope(success, error, message) ==
    [kind |-> "envelope", success |-> success, error |-> error, message |-> message]
Bodies ==
    { Envelope(su, er, me) :
        su \in BOOLEAN,
        er \in {None, Some(Str("X"))},
        me \in {None, Some(Str("M"))} }
    \cup { [kind |-> "null", success |-> FALSE, error |-> None, message |-> None],
           [kind |-> "invalid", success |-> FALSE, error |-> None, message |-> None] }

Error(name, message) == [name |-> name, message |-> message]

\* The rejections of fetch(): a TypeError whose message depends on the browser.
TransportErrors ==
    { Error("TypeError", <<"Failed", "to", "fetch">>),
      Error("TypeError", <<"Load", "failed">>) }

SuccessMessages == {EmptyStr, Str("Saved")}

Pending == [kind |-> "pending", error |-> None]
Resolved == [kind |-> "resolved", error |-> None]
Rejected(e) == [kind |-> "rejected", error |-> Some(e)]

\* The message of the notification in the document, if there is one.
Toast(d) == IF d.doc = <<>> THEN None ELSE Some(d.els[d.doc[Len(d.doc)]].message)

\* The catch block: the notification it shows for the caught error.
CatchBlock(dom, error) ==
    IF error.name = "TypeError" /\ Includes(error.message, <<"fetch">>)
    THEN showNotification(dom, NetworkErrorText, "error", DefaultDuration)
    ELSE IF ~Includes(error.message, OperationFailed)
    THEN showNotification(dom, UnexpectedErrorText, "error", DefaultDuration)
    ELSE dom

\* The call settles: the finally block runs setLoading(button, false) and the
\* promise resolves or rejects. The call keeps what the page then shows.
Settle(c, dom, result) ==
    /\ SetDom(dom)
    /\ btn' = SetLoadingOn(btn, calls[c].target, FALSE)
    /\ calls' = [calls EXCEPT ![c].pc = "done",
                              ![c].result = result,
                              ![c].toastAtSettle = Toast(dom),
                              ![c].btnAtSettle =
                                  IF calls[c].target = "null" THEN None
                                  ELSE Some(btn'[calls[c].target])]
    /\ UNCHANGED <<shows, pristine, ops, op, bd>>

\* The calls bound to button target that have not settled yet.
Unsettled(cs, target) ==
    {c \in DOMAIN cs : target # "null" /\ cs[c].target = target /\ cs[c].pc # "done"}

\* fetchWithFeedback(url, options, button, successMessage) up to its first await:
\* setLoading(button, true), then fetch() is issued.
StartFetch(target, successMessage) ==
    /\ Len(calls) < MaxCalls
    /\ btn' = SetLoadingOn(btn, target, TRUE)
    /\ calls' = Append(
           [c \in DOMAIN calls |->
              IF Unsettled(calls, target) # {} /\ calls[c].target = target
              THEN [calls[c] EXCEPT !.overlapped = TRUE] ELSE calls[c]],
           [target |-> target,
            overlapped |-> Unsettled(calls, target) # {},
            successMessage |-> successMessage,
            pc |-> "fetch",
            ok |-> FALSE,
            body |-> None,
            result |-> Pending,
            btnAtFetch |-> IF target = "null" THEN None ELSE Some(btn'[target]),
            btnAtSettle |-> None,
            toastAtSettle |-> None])
    /\ UNCHANGED <<els, doc, timers, lastShown, shows, pristine, ops, op, bd>>

\* await fetch(...) resumes with a response; response.json() is started.
FetchResponds(c, ok, body) ==
    /\ calls[c].pc = "fetch"
    /\ calls' = [calls EXCEPT ![c].pc = "json", ![c].ok = ok, ![c].body = Some(body)]
    /\ UNCHANGED <<els, doc, timers, lastShown, shows, btn, pristine, ops, op, bd>>

\* await fetch(...) rejects: catch, rethrow, finally.
FetchFails(c, error) ==
    /\ calls[c].pc = "fetch"
    /\ Settle(c, CatchBlock(Dom, error), Rejected(error))

\* await response.json() settles and the call runs to its end.
JsonSettles(c) ==
    /\ calls[c].pc = "json"
    /\ LET data == Val(calls[c].body)
           ok == calls[c].ok
           successMessage == calls[c].successMessage
       IN  CASE data.kind = "invalid" ->
                  LET e == Error("SyntaxError", <<"Unexpected", "token", "<", "in", "JSON">>)
                  IN  Settle(c, CatchBlock(Dom, e), Rejected(e))
             [] data.kind = "null" ->
                  LET e == Error("TypeError",
                               <<"Cannot", "read", "properties", "of", "null">>)
                  IN  Settle(c, CatchBlock(Dom, e), Rejected(e))
             [] OTHER ->
                  IF ok /\ data.success
                  THEN Settle(c,
                           IF successMessage # EmptyStr
                           THEN showNotification(Dom,
                                    Val(OrElse(data.message, Some(successMessage), EmptyStr)),
                                    "success", DefaultDuration)
                           ELSE Dom,
                           Resolved)
                  ELSE LET shown == showNotification(Dom,
                                        Val(OrElse(data.error,
                                                OrElse(data.message, Some(OperationFailed),
                                                       EmptyStr),
                                                EmptyStr)),
                                        "error", DefaultDuration)
                           e == Error("Error",
                                    Val(OrElse(data.error, Some(OperationFailed), EmptyStr)))
                       IN  Settle(c, CatchBlock(shown, e), Rejected(e))

\* The responses the endpoint gives: HTTP ok or not, and the body.
Responses ==
    { <<TRUE, b>> : b \in Bodies }
    \cup { <<FALSE, Envelope(TRUE, None, None)>>,
           <<FALSE, Envelope(FALSE, Some(Str("X")), None)>> }

\* The button the calls of one page are bound to.
FetchTargets == {"save", "null"}


NextFetch ==
    \/ \E t \in FetchTargets, sm \in SuccessMessages : StartFetch(t, sm)
    \/ \E c \in DOMAIN calls, r \in Responses : FetchResponds(c, r[1], r[2])
    \/ \E c \in DOMAIN calls, e \in TransportErrors : FetchFails(c, e)
    \/ \E c \in DOMAIN calls : JsonSettles(c)
    \/ \E t \in timers : FireDuration(t)
    \/ \E t \in timers : FireRemoval(t)
    \/ TickToNext

\* ------------------------------------------------------------ storage facade
\* Keys handed to the facade: undefined, the empty string, and two object keys.
Keys == {None, Some(""), Some("a.txt"), Some("b.txt")}
KeyMissing(key) == ~Truthy(key, "")

\* What r2Client.send() settles with: a result carrying the object's
\* ContentLength, or an SDK error.
SendOk(size) == [ok |-> TRUE, ContentLength |-> size, error |-> None]
SendFails(e) == [ok |-> FALSE, ContentLength |-> 0, error |-> Some(e)]
Sizes == {0, 42}
SdkErrors ==
    { Error("NotFound", Str("UnknownError")),
      Error("NoSuchKey", Str("The specified key does not exist.")),
      Error("AccessDenied", Str("Access Denied")),
      Error("TimeoutError", Str("socket hang up")) }
Replies == {SendOk(n) : n \in Sizes} \cup {SendFails(e) : e \in SdkErrors}

\* How a facade function ends: it returns a value or throws an error.
Returns(v) == [kind |-> "resolved", value |-> Some(v), error |-> None]
Throws(e) == [kind |-> "rejected", value |-> None, error |-> Some(e)]

\* new Error(`${prefix} ${error.message}`).
Wrapped(prefix, e) == Error("Error", <<prefix>> \o e.message)

KeyRequired == Error("Error", Str("Key is required"))
KeyAndBufferRequired == Error("Error", Str("Key and file buffer are required"))

\* The value a facade result carries: the fields the callers read.
Value(key, exists, size) == [key |-> key, exists |-> exists, size |-> size]

\* The error the try block throws before any request is made, if any.
Validation(name, key, hasBuffer) ==
    CASE name = "upload" ->
            IF KeyMissing(key) \/ ~hasBuffer THEN Some(KeyAndBufferRequired) ELSE None
      [] OTHER ->
            IF KeyMissing(key) THEN Some(KeyRequired) ELSE None

\* uploadFile's catch block.
uploadFileCatch(key, e) == Throws(Wrapped("Upload failed:", e))

\* downloadFile's catch block.
downloadFileCatch(key, e) ==
    IF e.name = "NoSuchKey" THEN Throws(Error("Error", <<"File not found:", key>>))
    ELSE IF e.name = "AccessDenied"
    THEN Throws(Error("Error", <<"Access denied for file:", key>>))
    ELSE Throws(Wrapped("Download failed:", e))

\* deleteFile's catch block.
deleteFileCatch(key, e) == Throws(Wrapped("Delete failed:", e))

\* getFileMetadata's catch block without the not-found case.
getFileMetadataCatchAll(key, e) == Throws(Wrapped("Get metadata failed:", e))

\* getFileMetadata's catch block.
getFileMetadataCatch(key, e) ==
    IF e.name = "NotFound" \/ e.name = "NoSuchKey"
    THEN Returns(Value(key, Some(FALSE), None))
    ELSE Throws(Wrapped("Get metadata failed:", e))

\* fileExists around getFileMetadata's outcome.
fileExists(metadata) ==
    IF metadata.kind = "resolved" THEN Returns(Val(Val(metadata.value).exists))
    ELSE Returns(FALSE)

\* getFileSize around getFileMetadata's outcome: the size, or null (None).
getFileSize(metadata) ==
    IF metadata.kind = "resolved"
    THEN Returns(IF Val(Val(metadata.value).exists)
                 THEN Val(metadata.value).size ELSE None)
    ELSE Returns(None)

\* A facade function's outcome when its try block throws e.
Caught(name, key, e) ==
    CASE name = "upload" -> uploadFileCatch(key, e)
      [] name = "download" -> downloadFileCatch(key, e)
      [] name = "delete" -> deleteFileCatch(key, e)
      [] name = "getMetadata" -> getFileMetadataCatch(key, e)
      [] name = "exists" -> fileExists(getFileMetadataCatch(key, e))
      [] name = "getSize" -> getFileSize(getFileMetadataCatch(key, e))

\* A facade function's outcome when its request returns a result.
Returned(name, key, reply) ==
    CASE name = "getMetadata" -> Returns(Value(key, Some(TRUE), Some(reply.ContentLength)))
      [] name = "exists" ->
            fileExists(Returns(Value(key, Some(TRUE), Some(reply.ContentLength))))
      [] name = "getSize" ->
            getFileSize(Returns(Value(key, Some(TRUE), Some(reply.ContentLength))))
      [] OTHER -> Returns(Value(key, None, Some(reply.ContentLength)))

\* Before the first call.
NoOp ==
    [name |-> "none", key |-> None, pc |-> "idle", sent |-> 0,
     reply |-> None, result |-> Pending]

OpNames == {"upload", "download", "delete", "getMetadata", "exists", "getSize"}

Idle == op.pc \in {"idle", "done"}

\* A request handler calls a facade function: the function validates its
\* arguments and either throws or sends one command to the storage service.
Call(name, key, hasBuffer) ==
    /\ ops < MaxOps
    /\ Idle
    /\ ops' = ops + 1
    /\ LET invalid == Validation(name, key, hasBuffer)
       IN  op' = IF IsSome(invalid)
                 THEN [name |-> name, key |-> key, pc |-> "done", sent |-> 0,
                       reply |-> None, result |-> Caught(name, key, Val(invalid))]
                 ELSE [name |-> name, key |-> key, pc |-> "sent", sent |-> 1,
                       reply |-> None, result |-> Pending]
    /\ UNCHANGED <<els, doc, timers, lastShown, shows, btn, pristine, calls, bd>>

\* await r2Client.send(command) settles.
SendSettles(reply) ==
    /\ op.pc = "sent"
    /\ op' = [op EXCEPT !.pc = "done",
                        !.reply = Some(reply),
                        !.result = IF reply.ok
                                   THEN Returned(op.name, op.key, reply)
                                   ELSE Caught(op.name, op.key, Val(reply.error))]
    /\ UNCHANGED <<els, doc, timers, lastShown, shows, btn, pristine, calls, ops, bd>>


NextStore ==
    \/ \E name \in OpNames, key \in Keys, hasBuffer \in BOOLEAN : Call(name, key, hasBuffer)
    \/ \E reply \in Replies : SendSettles(reply)

\* --------------------------------------------------------------- deleteFiles
\* The key lists handed to deleteFiles: undefined (None) or an array of n
\* object keys, the i-th key being i.
KeyList(n) == [i \in 1..n |-> i]
Lengths ==
    {n \in {0, 1, 2, maxBatchSize - 1, maxBatchSize, maxBatchSize + 1,
            2 * maxBatchSize, 2 * maxBatchSize + maxBatchSize \div 2, MaxKeys} :
        n <= MaxKeys}
KeyLists == {None} \cup {Some(KeyList(n)) : n \in Lengths}

\* A slice that forgets its end: keys.slice(i).
SliceToEnd(keys, i, size) == SubSeq(keys, i + 1, Len(keys))

\* keys.slice(i, i + maxBatchSize), i counted from 0.
Slice(keys, i, size) ==
    SubSeq(keys, i + 1, IF i + size < Len(keys) THEN i + size ELSE Len(keys))

\* What a DeleteObjectsCommand settles with: the objects deleted and the
\* per-object errors (either list may be missing), or an SDK error.
DeleteOk(deleted, errors) == [ok |-> TRUE, Deleted |-> deleted, Errors |-> errors, error |-> None]
DeleteFails(e) == [ok |-> FALSE, Deleted |-> None, Errors |-> None, error |-> Some(e)]
DeleteReplies(batch) ==
    { DeleteOk(Some(batch), None),
      DeleteOk(None, Some(batch)),
      DeleteOk(Some(SubSeq(batch, 1, 1)), Some(Tail(batch))),
      DeleteFails(Error("TimeoutError", Str("socket hang up"))) }

\* results.reduce((acc, result) => acc + (result.Deleted?.length || 0), 0).
RECURSIVE DeletedCount(_)
DeletedCount(results) ==
    IF results = <<>> THEN 0
    ELSE (IF IsSome(Head(results).Deleted) THEN Len(Val(Head(results).Deleted)) ELSE 0)
         + DeletedCount(Tail(results))

\* results.reduce((acc, result) => acc.concat(result.Errors || []), []).
RECURSIVE CollectErrors(_)
CollectErrors(results) ==
    IF results = <<>> THEN <<>>
    ELSE (IF IsSome(Head(results).Errors) THEN Val(Head(results).Errors) ELSE <<>>)
         \o CollectErrors(Tail(results))

\* deleteFiles' return value.
BatchResult(results) ==
    [results |-> Len(results),
     deletedCount |-> DeletedCount(results),
     errors |-> CollectErrors(results)]

\* deleteFiles' catch block.
deleteFilesCatch(e) == Throws(Wrapped("Batch delete failed:", e))

KeysRequired == Error("Error", Str("Keys array is required and must not be empty"))

NoBatch ==
    [keys |-> None, pc |-> "idle", i |-> 0, sent |-> <<>>, results |-> <<>>,
     result |-> Pending]

\* deleteFiles(keys) up to its first await: validation, then the first chunk.
deleteFiles(keys) ==
    /\ bd.pc = "idle"
    /\ bd' = IF ~IsSome(keys) \/ Len(Val(keys)) = 0
             THEN [bd EXCEPT !.keys = keys, !.pc = "done",
                             !.result = deleteFilesCatch(KeysRequired)]
             ELSE [bd EXCEPT !.keys = keys, !.pc = "sent", !.i = 0,
                             !.sent = <<Slice(Val(keys), 0, maxBatchSize)>>]
    /\ UNCHANGED <<els, doc, timers, lastShown, shows, btn, pristine, calls, ops, op>>

\* await r2Client.send(command) settles inside the loop: on a result the loop
\* goes on to the next chunk or the function returns; on an error it throws.
DeleteSettles(reply) ==
    /\ bd.pc = "sent"
    /\ reply \in DeleteReplies(bd.sent[Len(bd.sent)])
    /\ LET results == Append(bd.results, reply)
           i == bd.i + maxBatchSize
       IN  bd' = IF ~reply.ok
                 THEN [bd EXCEPT !.pc = "done",
                                 !.result = deleteFilesCatch(Val(reply.error))]
                 ELSE IF i < Len(Val(bd.keys))
                 THEN [bd EXCEPT !.results = results, !.i = i,
                                 !.sent = Append(@, Slice(Val(bd.keys), i, maxBatchSize))]
                 ELSE [bd EXCEPT !.results = results, !.i = i, !.pc = "done",
                                 !.result = Returns(BatchResult(results))]
    /\ UNCHANGED <<els, doc, timers, lastShown, shows, btn, pristine, calls, ops, op>>

NextBatch ==
    \/ \E keys \in KeyLists : deleteFiles(keys)
    \/ bd.pc = "sent" /\ \E reply \in DeleteReplies(bd.sent[Len(bd.sent)]) : DeleteSettles(reply)

\* ----------------------------------------------------------- specifications
\* The page after load: no notification, no timer, fresh buttons, no call made.
Init ==
    /\ els = <<>>
    /\ doc = <<>>
    /\ timers = {}
    /\ lastShown = None
    /\ shows = 0
    /\ pristine \in [Buttons -> Contents]
    /\ btn = [b \in Buttons |-> FreshButton(pristine[b])]
    /\ calls = <<>>
    /\ ops = 0
    /\ op = NoOp
    /\ bd = NoBatch

\* One fixed pair of buttons, for the specifications in which no button acts.
InitPlain == Init /\ pristine = [b \in Buttons |-> <<Text("Save")>>]

\* One page: both buttons start with the same content.
InitFetch == Init /\ pristine["del"] = pristine["save"]

\* Notifications: timers on the event loop fire once due, and time does not stop.
SpecNotify ==
    /\ InitPlain
    /\ [][NextNotify]_vars
    /\ WF_vars(Tick)
    /\ WF_vars(\E t \in timers : FireDuration(t))
    /\ WF_vars(\E t \in timers : FireRemoval(t))

\* setLoading called by page scripts.
SpecLoading == Init /\ [][NextLoading]_vars

\* fetchWithFeedback calls on the event loop.
SpecFetch == InitFetch /\ [][NextFetch]_vars

\* The storage facade's single-object functions.
SpecStore == InitPlain /\ [][NextStore]_vars

\* deleteFiles.
SpecBatch == InitPlain /\ [][NextBatch]_vars

Next == NextNotify \/ NextLoading \/ NextFetch \/ NextStore \/ NextBatch

\* The whole program.
Spec == Init /\ [][Next]_vars

\* ------------------------------------------------------------------- claims

\* At most one element, the latest one, with the latest message.
C1_Inv ==
    /\ Len(doc) <= 1
    /\ doc # <<>> => doc[1] = Len(els) /\ Some(els[doc[1]].message) = lastShown
\* C1: after any sequence of show() calls, timer firings and dismissals the
\* document holds at most one notification element, which is the one the most
\* recent show() created and carries its message; and right after every show()
\* exactly one element is present, carrying that call's message.
C1_OneNotification ==
    /\ []C1_Inv
    /\ [][shows' # shows =>
            Len(doc') = 1 /\ Some(els'[doc'[1]].message) = lastShown']_vars
\* Two shows with different messages; the replaced element's timers have all
\* fired while the second element is in the document.
C1_Witness ==
    /\ shows = 2
    /\ doc = <<2>>
    /\ els[1].message # els[2].message
    /\ \A t \in timers : t.note # 1

\* C2: setLoading(btn, true), once or several times, followed by
\* setLoading(btn, false) leaves the button enabled and with the content it had
\* before the first setLoading call. (The step that takes the busy class off a
\* button is setLoading(btn, false) after at least one setLoading(btn, true).)
C2_RestoresContent ==
    [][\A b \in Buttons :
          btn[b].loading /\ ~btn'[b].loading =>
              btn'[b].innerHTML = pristine[b] /\ ~btn'[b].disabled]_vars

\* The envelope's error, else its message, else the generic failure text.
C3_FailureText(data) ==
    Val(OrElse(data.error, OrElse(data.message, Some(OperationFailed), EmptyStr), EmptyStr))
\* C3: a call answered by an envelope that is not a success settles with an
\* error notification in the document carrying the envelope's error, else its
\* message, else the generic failure text, and rejects with an error whose
\* message is that same text.
C3_EnvelopeFailure ==
    \A c \in DOMAIN calls :
        LET call == calls[c] IN
        (/\ call.pc = "done"
         /\ IsSome(call.body)
         /\ Val(call.body).kind = "envelope"
         /\ ~(call.ok /\ Val(call.body).success))
        => /\ call.toastAtSettle = Some(C3_FailureText(Val(call.body)))
           /\ call.result.kind = "rejected"
           /\ Val(call.result.error).message = C3_FailureText(Val(call.body))

\* C4: a call bound to a button has put the button in the loading state when
\* fetch() is issued, and when the call settles, on any path, the button is
\* enabled, not marked busy and shows its original content.
C4_LoadingScoped ==
    \A c \in DOMAIN calls :
        LET call == calls[c] IN
        call.target # "null" =>
            /\ Val(call.btnAtFetch).disabled /\ Val(call.btnAtFetch).loading
            /\ call.pc = "done" =>
                 /\ ~Val(call.btnAtSettle).disabled
                 /\ ~Val(call.btnAtSettle).loading
                 /\ Val(call.btnAtSettle).innerHTML = pristine[call.target]

\* The class of error a caller can tell from a thrown error: its name when it
\* has one of its own, else what its message starts with.
ErrorClass(e) ==
    IF e.name # "Error" THEN e.name
    ELSE CASE Head(e.message) = "Upload failed:" -> "UploadError"
           [] Head(e.message) = "Download failed:" -> "DownloadError"
           [] Head(e.message) = "Delete failed:" -> "DeleteError"
           [] Head(e.message) = "Get metadata failed:" -> "MetadataError"
           [] Head(e.message) = "Batch delete failed:" -> "DeleteError"
           [] Head(e.message) = "File not found:" -> "NotFoundError"
           [] Head(e.message) = "Access denied for file:" -> "AccessError"
           [] OTHER -> "ValidationError"

\* C5: upload, download, delete and getMetadata with an empty or absent key
\* reject with a ValidationError, distinct from the operation's own error
\* class, and send nothing to the storage service.
C5_ValidationError ==
    (/\ op.pc = "done"
     /\ op.name \in {"upload", "download", "delete", "getMetadata"}
     /\ KeyMissing(op.key))
    => /\ op.sent = 0
       /\ op.result.kind = "rejected"
       /\ ErrorClass(Val(op.result.error)) = "ValidationError"

\* The requests a list of n keys needs: ceil(n / 1000).
C6_Ceil(n) == (n + maxBatchSize - 1) \div maxBatchSize
\* The chunks sent so far, one after the other.
RECURSIVE C6_Concat(_)
C6_Concat(chunks) ==
    IF chunks = <<>> THEN <<>> ELSE Head(chunks) \o C6_Concat(Tail(chunks))
\* The objects the first k requests reported deleted.
RECURSIVE C6_Reported(_, _)
C6_Reported(results, k) ==
    IF k = 0 THEN 0
    ELSE C6_Reported(results, k - 1)
         + (IF IsSome(results[k].Deleted) THEN Len(Val(results[k].Deleted)) ELSE 0)

\* C6 as stated: for every non-empty list of n keys batchDelete issues exactly
\* ceil(n/1000) requests, each of at most 1000 keys, the chunks forming the
\* input list, and returns deletedCount, the sum of the reported deletions.
C6_ExactlyCeilRequests ==
    (bd.pc = "done" /\ IsSome(bd.keys) /\ Val(bd.keys) # <<>>)
    => /\ Len(bd.sent) = C6_Ceil(Len(Val(bd.keys)))
       /\ \A j \in DOMAIN bd.sent : Len(bd.sent[j]) <= maxBatchSize
       /\ C6_Concat(bd.sent) = Val(bd.keys)
       /\ bd.result.kind = "resolved"
       /\ Val(bd.result.value).deletedCount = C6_Reported(bd.results, Len(bd.results))

\* C6, amended: for every non-empty list of n keys batchDelete sends its
\* requests one after the other (a request is sent only after the previous one
\* returned), each carrying between 1 and 1000 keys, the chunks in order forming
\* a prefix of the list. When every request returns, exactly ceil(n/1000)
\* requests were sent, the chunks form exactly the list (1000, 1000 and 500 keys
\* for 2500), deletedCount is the sum of the deletions the requests reported
\* and the per-object errors are collected in the result. When a request
\* fails, no further request is sent and batchDelete rejects.
C6_Chunking ==
    (IsSome(bd.keys) /\ Val(bd.keys) # <<>>)
    => LET keys == Val(bd.keys)
           n == Len(keys)
           all == C6_Concat(bd.sent)
       IN  /\ \A j \in DOMAIN bd.sent :
                 Len(bd.sent[j]) >= 1 /\ Len(bd.sent[j]) <= maxBatchSize
           /\ Len(all) <= n /\ all = SubSeq(keys, 1, Len(all))
           /\ Len(bd.sent) <= C6_Ceil(n)
           /\ bd.pc = "sent" => Len(bd.sent) = Len(bd.results) + 1
           /\ (bd.pc = "done" /\ bd.result.kind = "resolved") =>
                 /\ Len(bd.sent) = C6_Ceil(n)
                 /\ Len(bd.results) = Len(bd.sent)
                 /\ all = keys
                 /\ n = 2 * maxBatchSize + maxBatchSize \div 2 =>
                        [j \in DOMAIN bd.sent |-> Len(bd.sent[j])]
                            = <<maxBatchSize, maxBatchSize, maxBatchSize \div 2>>
                 /\ Val(bd.result.value).deletedCount
                        = C6_Reported(bd.results, Len(bd.results))
                 /\ Len(Val(bd.result.value).errors) + Val(bd.result.value).deletedCount
                        <= n
                 /\ Val(bd.result.value).errors =
                        C6_Concat([j \in DOMAIN bd.results |->
                                     IF IsSome(bd.results[j].Errors)
                                     THEN Val(bd.results[j].Errors) ELSE <<>>])
           /\ (bd.pc = "done" /\ bd.result.kind = "rejected") =>
                 /\ Len(bd.sent) = Len(bd.results) + 1
                 /\ ErrorClass(Val(bd.result.error)) = "DeleteError"
\* 2500 keys deleted in three requests, with deletions and per-object errors
\* both reported.
C6_Witness ==
    /\ bd.pc = "done"
    /\ bd.result.kind = "resolved"
    /\ Len(Val(bd.keys)) = 2 * maxBatchSize + maxBatchSize \div 2
    /\ Len(bd.sent) = 3
    /\ Val(bd.result.value).deletedCount > 0
    /\ Val(bd.result.value).errors # <<>>

\* The storage service reported the key as not found.
C7_NotFoundReply ==
    /\ IsSome(op.reply)
    /\ ~Val(op.reply).ok
    /\ Val(Val(op.reply).error).name \in {"NotFound", "NoSuchKey"}
\* The storage service returned the object's metadata.
C7_Found == IsSome(op.reply) /\ Val(op.reply).ok
\* C7: getMetadata returns exists=false, without raising, when the service
\* reports the key as not found, and raises a MetadataError on any other remote
\* failure; exists and getSize never raise: they give false / absent when the
\* object is not found or getMetadata fails, and true / the size otherwise.
C7_MetadataSentinels ==
    op.pc = "done" =>
        /\ op.name = "getMetadata" =>
             /\ C7_NotFoundReply =>
                  /\ op.result.kind = "resolved"
                  /\ Val(op.result.value).exists = Some(FALSE)
             /\ C7_Found =>
                  /\ op.result.kind = "resolved"
                  /\ Val(op.result.value).exists = Some(TRUE)
                  /\ Val(op.result.value).size = Some(Val(op.reply).ContentLength)
             /\ (IsSome(op.reply) /\ ~C7_NotFoundReply /\ ~C7_Found) =>
                  /\ op.result.kind = "rejected"
                  /\ ErrorClass(Val(op.result.error)) = "MetadataError"
        /\ op.name = "exists" =>
             /\ op.result.kind = "resolved"
             /\ Val(op.result.value) = C7_Found
        /\ op.name = "getSize" =>
             /\ op.result.kind = "resolved"
             /\ Val(op.result.value) =
                    IF C7_Found THEN Some(Val(op.reply).ContentLength) ELSE None
\* getMetadata on a key the service reports as not found.
C7_Witness ==
    /\ op.pc = "done"
    /\ op.name = "getMetadata"
    /\ C7_NotFoundReply
    /\ op.result.kind = "resolved"

\* The step is a showNotification call, which replaces the element present.
C8_Replaced == Len(els') > Len(els)
\* C8 as stated: a notification that is not replaced becomes absent only out
\* of fading, after the 300-unit exit transition.
C8_AlwaysFades ==
    [][\A n \in DOMAIN els :
          (/\ NoteState(els, doc, n) # "absent"
           /\ NoteState(els', doc', n) = "absent"
           /\ ~C8_Replaced)
          => NoteState(els, doc, n) = "fading" /\ els[n].age = RemovalDelay]_vars

\* The lifecycle steps of element n.
C8_Step(n) ==
    LET before == NoteState(els, doc, n)
        after == NoteState(els', doc', n)
    IN  /\ (before = "visible" /\ after = "fading") => els[n].age = els[n].duration
        /\ (before = "fading" /\ after = "absent") =>
               els[n].age = RemovalDelay \/ Dismiss(n) \/ C8_Replaced
        /\ (before = "visible" /\ after = "absent") => Dismiss(n) \/ C8_Replaced
        /\ before = "fading" => after # "visible"
        /\ before = "absent" => after = "absent"
\* C8, amended: every notification follows absent -> visible -> fading ->
\* absent, except that a user dismissal or a replacement removes it at once,
\* from visible or from fading, with no exit transition: a new element is
\* visible; it enters fading only when its duration has elapsed; it leaves
\* fading for absent when the 300 units of the exit transition have elapsed,
\* or by dismissal or replacement; it leaves visible for absent only by
\* dismissal or replacement; once absent it stays absent; and every shown
\* notification eventually becomes absent.
C8_Lifecycle ==
    /\ [][\A n \in DOMAIN els' :
            IF n \in DOMAIN els THEN C8_Step(n)
            ELSE NoteState(els', doc', n) = "visible"]_vars
    /\ \A n \in 1..MaxShows :
          [](n \in DOMAIN els /\ Attached(n) => <>(~Attached(n)))
\* An element that was never replaced has faded for the whole exit transition.
C8_Witness ==
    \E n \in DOMAIN els :
        /\ n = Len(els)
        /\ NoteState(els, doc, n) = "fading"
        /\ els[n].age = RemovalDelay

\* C9: setLoading(btn, isLoading) twice in a row leaves the button (disabled
\* flag, busy class, content, stored original) exactly as one call does: a
\* call that repeats the button's last call changes nothing. (A button with the
\* busy class was last called with true; one without it whose original is
\* stored was last called with false.)
C9_Idempotent ==
    [][\A b \in Buttons :
          /\ (btn[b].loading /\ SetLoadingCall(b, TRUE)) => btn'[b] = btn[b]
          /\ (~btn[b].loading /\ IsSome(btn[b].originalHTML) /\ SetLoadingCall(b, FALSE))
                => btn'[b] = btn[b]]_vars

\* C10: when calls bound to one button overlap, the button stays disabled and
\* busy as long as one of them is unsettled, and shows its original content
\* once all of them have settled.
C10_OverlapKeepsLoading ==
    \A b \in Buttons :
        (\E c \in DOMAIN calls : calls[c].target = b /\ calls[c].overlapped)
        => IF Unsettled(calls, b) # {}
           THEN btn[b].disabled /\ btn[b].loading
           ELSE btn[b].innerHTML = pristine[b]

====
